---- MODULE Spec2Model ----
(***************************************************************************)
(* SDMX Codelist Registry (streamlit_app.py): the registry loader with its *)
(* result cache, the codelist detail parser, the three exports and the     *)
(* script that Streamlit re-runs on every interaction.                     *)
(*                                                                         *)
(* An XML document is the sequence of its elements in document order, each *)
(* with its depth below the root (the root is element 1, depth 0): the     *)
(* descendants of element i are the elements that follow it for as long as *)
(* their depth stays greater than that of i.                               *)
(***************************************************************************)
EXTENDS Integers, Sequences, FiniteSets, TLC

(***************************************************************************)
(* Bounds of the model.                                                    *)
(***************************************************************************)
\* elements below the root in the documents given to the two parsers
MaxNodes == 3
\* rows of the tables handed to create_pdf
MaxPdfRows == 16

(***************************************************************************)
(* Namespaces, tags and Python values.                                     *)
(***************************************************************************)
StructureNS == "http://www.sdmx.org/resources/sdmxml/schemas/v2_1/structure"
CommonNS == "http://www.sdmx.org/resources/sdmxml/schemas/v2_1/common"
MessageNS == "http://www.sdmx.org/resources/sdmxml/schemas/v2_1/message"
XmlLang == "{http://www.w3.org/XML/1998/namespace}lang"

Tag(ns, name) == [ns |-> ns, name |-> name]
CodelistTag == Tag(StructureNS, "Codelist")
CodeTag == Tag(StructureNS, "Code")
NameTag == Tag(CommonNS, "Name")

\* Python's None (the text of an empty element, a failed detail fetch)
None == "<None>"

\* the empty dict / the empty list of dicts
EmptyDict == << >>

(***************************************************************************)
(* str.lower(), character by character, on the letters A-Z.                *)
(***************************************************************************)
UpperToLower ==
  [A |-> "a", B |-> "b", C |-> "c", D |-> "d", E |-> "e", F |-> "f",
   G |-> "g", H |-> "h", I |-> "i", J |-> "j", K |-> "k", L |-> "l",
   M |-> "m", N |-> "n", O |-> "o", P |-> "p", Q |-> "q", R |-> "r",
   S |-> "s", T |-> "t", U |-> "u", V |-> "v", W |-> "w", X |-> "x",
   Y |-> "y", Z |-> "z"]

\* a comparison that forgets to lower-case
lower_missing(s) == s

lower(s) ==
  [i \in 1..Len(s) |->
     IF s[i] \in DOMAIN UpperToLower THEN UpperToLower[s[i]] ELSE s[i]]

\* the literals of line 38, as character sequences
UnknownChars == <<"U", "n", "k", "n", "o", "w", "n">>
TrueChars == <<"t", "r", "u", "e">>

(***************************************************************************)
(* dict.get(key, default) on an attribute bag or a names dict.             *)
(***************************************************************************)
get(d, key, default) == IF key \in DOMAIN d THEN d[key] ELSE default

\* an assignment that keeps the value a key already has
setitem_first(d, key, value) ==
  [k \in DOMAIN d \cup {key} |-> IF k \in DOMAIN d THEN d[k] ELSE value]

\* d[key] = value
setitem(d, key, value) ==
  [k \in DOMAIN d \cup {key} |-> IF k = key THEN value ELSE d[k]]

(***************************************************************************)
(* The elements the documents of the model are made of.                    *)
(***************************************************************************)
Elem(tag, attrib, text) == [tag |-> tag, attrib |-> attrib, text |-> text]

CL_full ==
  Elem(CodelistTag,
       [id |-> "CL_SEX", agencyID |-> "SPC", version |-> "1.0",
        isFinal |-> <<"t", "r", "u", "e">>,
        structureURL |-> "http://x/cl_sex"], None)
CL_dup ==
  Elem(CodelistTag,
       [id |-> "CL_SEX", isFinal |-> <<"T", "R", "U", "E">>,
        structureURL |-> "http://x/cl_sex_2"], None)
CL_draft ==
  Elem(CodelistTag,
       [agencyID |-> "SPC", version |-> "2.0",
        isFinal |-> <<"f", "a", "l", "s", "e">>], None)
CL_bare == Elem(CodelistTag, EmptyDict, None)
Code_M == Elem(CodeTag, [id |-> "M"], None)
Code_bare == Elem(CodeTag, EmptyDict, None)
Name_en == Elem(NameTag, (XmlLang :> "en"), "Sex")
Name_en_empty == Elem(NameTag, (XmlLang :> "en"), None)
Name_fr == Elem(NameTag, (XmlLang :> "fr"), "Sexe")
Name_fr_macron == Elem(NameTag, (XmlLang :> "fr"), "T{U+0101}ne")
Name_nolang == Elem(NameTag, EmptyDict, "Unlabelled")
Name_structure == Elem(Tag(StructureNS, "Name"), (XmlLang :> "en"), "Wrong namespace")

MessageRoot == Elem(Tag(MessageNS, "Structure"), EmptyDict, None)
CodelistRoot == Elem(CodelistTag, [id |-> "CL_ROOT"], None)
CodeRoot == Elem(CodeTag, [id |-> "ROOT"], None)

RegistryKinds == {CL_full, CL_dup, CL_draft, CL_bare, Name_en, Name_en_empty, Name_fr, Name_nolang}
DetailKinds == {Code_M, Code_bare, Name_en, Name_en_empty, Name_fr, Name_structure}

\* texts that have no ISO-8859-1 encoding
NonLatin1 == {"T{U+0101}ne"}

(***************************************************************************)
(* Byte strings: a well-formed document, or bytes that are not one.        *)
(***************************************************************************)
Document(nodes) == [kind |-> "document", nodes |-> nodes]
\* b"<Codelist"
Truncated == [kind |-> "truncated", nodes |-> << >>]
\* b""
EmptyBytes == [kind |-> "empty", nodes |-> << >>]

\* depths of n elements in document order below a root of depth 0
DepthSeqs(n) ==
  {d \in [1..n -> 1..n] :
     /\ n > 0 => d[1] = 1
     /\ \A i \in 2..n : d[i] <= d[i - 1] + 1}

Place(e, depth) == [tag |-> e.tag, attrib |-> e.attrib, text |-> e.text, depth |-> depth]

\* the document with root r and, below it, the elements k at the depths d
Built(r, k, d) ==
  Document(<<Place(r, 0)>> \o [i \in 1..Len(k) |-> Place(k[i], d[i])])

\* the document with the message root and, below it, these subtrees
Flat(entries) ==
  Document(<<Place(MessageRoot, 0)>> \o
           (IF Len(entries) = 0 THEN << >>
            ELSE IF Len(entries) = 1 THEN entries[1]
            ELSE entries[1] \o entries[2]))

\* the documents with at most two of the given subtrees below the root
UpToTwo(entries) ==
  {Flat(<< >>)} \cup {Flat(<<a>>) : a \in entries}
                \cup {Flat(<<a, b>>) : a, b \in entries}

(***************************************************************************)
(* ElementTree: fromstring and findall(".//ns:tag").                       *)
(***************************************************************************)
\* ET.fromstring raises ParseError exactly on bytes that are no document
RaisesParseError(xml_content) == xml_content.kind # "document"

RECURSIVE descend(_, _, _, _)
descend(nodes, ctx, j, tag) ==
  IF j > Len(nodes) \/ nodes[j].depth <= nodes[ctx].depth
  THEN << >>
  ELSE (IF nodes[j].tag = tag THEN <<j>> ELSE << >>) \o descend(nodes, ctx, j + 1, tag)

\* a findall that looks at the children of ctx only ("./ns:tag")
findall_children(nodes, ctx, tag) ==
  SelectSeq(descend(nodes, ctx, ctx + 1, tag),
            LAMBDA j : nodes[j].depth = nodes[ctx].depth + 1)

\* the elements with this tag strictly below element ctx, in document order
findall(nodes, ctx, tag) == descend(nodes, ctx, ctx + 1, tag)

(***************************************************************************)
(* pandas: DataFrame(list of dicts), DataFrame(), .empty, to_csv.          *)
(***************************************************************************)
\* pd.DataFrame(data): the columns are the keys of the dicts, none for []
DataFrame(data, keys) ==
  [columns |-> IF data = << >> THEN << >> ELSE keys, rows |-> data]

EmptyDataFrame == [columns |-> << >>, rows |-> << >>]

empty(df) == Len(df.rows) = 0 \/ Len(df.columns) = 0

\* a cell as to_csv writes it: None is written as the empty field
csv_cell(v) == IF v = None THEN "" ELSE v

\* to_csv(index=False): the header line, then one line per row
to_csv(df) ==
  <<df.columns>> \o
  [r \in 1..Len(df.rows) |->
     [c \in 1..Len(df.columns) |-> csv_cell(df.rows[r][df.columns[c]])]]

(***************************************************************************)
(* fetch_codelists_from_xml: the body behind st.cache_data.                *)
(***************************************************************************)
CodelistColumns ==
  <<"Codelist ID", "Agency ID", "Version", "Is Final", "Structure URL",
    "Name (en)", "Name (fr)">>
ItemColumns == <<"Code ID", "Name (en)", "Name (fr)">>

\* the loop over the Name elements: names[lang] = name_elem.text
RECURSIVE names_loop(_, _, _)
names_loop(nodes, found, names) ==
  IF found = << >>
  THEN names
  ELSE names_loop(nodes, Tail(found),
                  setitem(names,
                          get(nodes[Head(found)].attrib, XmlLang, "unknown"),
                          nodes[Head(found)].text))

codelist_record(nodes, codelist) ==
  LET attrib == nodes[codelist].attrib
      names == names_loop(nodes, findall(nodes, codelist, NameTag), EmptyDict)
  IN  [k \in {CodelistColumns[i] : i \in 1..Len(CodelistColumns)} |->
         CASE k = "Codelist ID" -> get(attrib, "id", "Unknown ID")
           [] k = "Agency ID" -> get(attrib, "agencyID", "Unknown Agency")
           [] k = "Version" -> get(attrib, "version", "Unknown Version")
           [] k = "Is Final" -> lower(get(attrib, "isFinal", UnknownChars)) = TrueChars
           [] k = "Structure URL" -> get(attrib, "structureURL", "Unknown URL")
           [] k = "Name (en)" -> get(names, "en", "N/A")
           [] k = "Name (fr)" -> get(names, "fr", "N/A")]

RECURSIVE codelist_loop(_, _, _)
codelist_loop(nodes, found, codelist_data) ==
  IF found = << >>
  THEN codelist_data
  ELSE codelist_loop(nodes, Tail(found),
                     Append(codelist_data, codelist_record(nodes, Head(found))))

\* a response of requests.get: status "ok" with its content, or "error"
\* (a transport failure, or a status raise_for_status rejects)
Ok(content) == [status |-> "ok", content |-> content]
Failed == [status |-> "error", content |-> EmptyBytes]

\* the value returned, the st.error message written ("" for none) and the
\* exception that escapes the call ("" for none)
fetch_codelists_from_xml(response) ==
  IF response.status # "ok"
  THEN [df |-> EmptyDataFrame, error |-> "Error fetching data from API", raised |-> ""]
  ELSE IF RaisesParseError(response.content)
  THEN [df |-> EmptyDataFrame, error |-> "Error parsing XML", raised |-> ""]
  ELSE [df |-> DataFrame(codelist_loop(response.content.nodes,
                                       findall(response.content.nodes, 1, CodelistTag),
                                       << >>),
                         CodelistColumns),
        error |-> "", raised |-> ""]

(***************************************************************************)
(* parse_codelist_items.                                                   *)
(***************************************************************************)
code_record(nodes, code) ==
  LET names == names_loop(nodes, findall(nodes, code, NameTag), EmptyDict)
  IN  [k \in {ItemColumns[i] : i \in 1..Len(ItemColumns)} |->
         CASE k = "Code ID" -> get(nodes[code].attrib, "id", "Unknown Code")
           [] k = "Name (en)" -> get(names, "en", "N/A")
           [] k = "Name (fr)" -> get(names, "fr", "N/A")]

\* a loop that puts each new record in front of the earlier ones
RECURSIVE code_loop_reversed(_, _, _)
code_loop_reversed(nodes, found, items) ==
  IF found = << >>
  THEN items
  ELSE code_loop_reversed(nodes, Tail(found),
                          <<code_record(nodes, Head(found))>> \o items)

RECURSIVE code_loop(_, _, _)
code_loop(nodes, found, items) ==
  IF found = << >>
  THEN items
  ELSE code_loop(nodes, Tail(found), Append(items, code_record(nodes, Head(found))))

\* a parser without the except clause of lines 108-110
parse_codelist_items_uncaught(xml_content) ==
  IF RaisesParseError(xml_content)
  THEN [df |-> EmptyDataFrame, error |-> "", raised |-> "ParseError"]
  ELSE [df |-> DataFrame(code_loop(xml_content.nodes,
                                   findall(xml_content.nodes, 1, CodeTag),
                                   << >>),
                         ItemColumns),
        error |-> "", raised |-> ""]

parse_codelist_items(xml_content) ==
  IF RaisesParseError(xml_content)
  THEN [df |-> EmptyDataFrame, error |-> "Error parsing codelist XML", raised |-> ""]
  ELSE [df |-> DataFrame(code_loop(xml_content.nodes,
                                   findall(xml_content.nodes, 1, CodeTag),
                                   << >>),
                         ItemColumns),
        error |-> "", raised |-> ""]

(***************************************************************************)
(* fetch_codelist_detail.                                                  *)
(***************************************************************************)
\* the detail fetch returned None
NoneBytes == [kind |-> "None", nodes |-> << >>]

\* the truth value of a bytes-or-None value, and of a string
truthy(bytes) == bytes.kind \notin {"None", "empty"}
nonempty(str) == str # ""

\* response is what requests.get(url) came back with
fetch_codelist_detail(url, response) ==
  IF response.status # "ok" THEN NoneBytes ELSE response.content

(***************************************************************************)
(* create_pdf: one text object on one letter page.                         *)
(***************************************************************************)
StartX == 50
StartY == 750
FontSize == 10
\* setFont without a leading takes 1.2 times the font size
Leading == (FontSize * 12) \div 10
\* letter is 612 x 792 points
PageHeight == 792

\* Python's str() inside the f-strings
str(v) == IF v = None THEN "None" ELSE v

beginText(x, y) == [x |-> x, y |-> y, lines |-> << >>]

\* textLine: write at the cursor, then move the cursor one leading down
textLine(text, line) ==
  [x |-> text.x, y |-> text.y - Leading,
   lines |-> Append(text.lines, [x |-> text.x, y |-> text.y, text |-> line])]

RECURSIVE iterrows(_, _)
iterrows(text, rows) ==
  IF rows = << >>
  THEN text
  ELSE iterrows(
         textLine(
           textLine(
             textLine(
               textLine(text, <<"Code ID: ", str(Head(rows)["Code ID"])>>),
               <<"Name (en): ", str(Head(rows)["Name (en)"])>>),
             <<"Name (fr): ", str(Head(rows)["Name (fr)"])>>),
           <<"">>),
         Tail(rows))

\* the pages of the saved document: drawText puts the whole text object on
\* the current page and save() closes that page
create_pdf(dataframe) ==
  LET text == iterrows(
                textLine(textLine(beginText(StartX, StartY), <<"Codelist Details">>),
                         <<"--------------------------------------------------">>),
                dataframe.rows)
  IN  [saved |-> TRUE, pages |-> <<text.lines>>]

NoPdf == [saved |-> FALSE, pages |-> << >>]

(***************************************************************************)
(* The script below line 133, as Streamlit runs it.                        *)
(***************************************************************************)
\* str.encode("ISO-8859-1") raises UnicodeEncodeError on these lines
Unencodable(lines) ==
  \E r \in 1..Len(lines) : \E c \in 1..Len(lines[r]) : lines[r][c] \in NonLatin1

\* a download that takes the first bytes the parser could use, not the fetched ones
xml_download_button_reserialized(codelist_detail_xml, selected_codelist_id) ==
  [offered |-> TRUE,
   data |-> IF RaisesParseError(codelist_detail_xml)
            THEN EmptyBytes
            ELSE Document(<<codelist_detail_xml.nodes[1]>>),
   file_name |-> <<selected_codelist_id, ".xml">>, mime |-> "application/xml"]

xml_download_button(codelist_detail_xml, selected_codelist_id) ==
  [offered |-> TRUE, data |-> codelist_detail_xml,
   file_name |-> <<selected_codelist_id, ".xml">>, mime |-> "application/xml"]

NoXml == [offered |-> FALSE, data |-> NoneBytes, file_name |-> << >>, mime |-> ""]
NoCsv == [offered |-> FALSE, data |-> << >>, file_name |-> << >>, mime |-> ""]
NoPdfDownload == [offered |-> FALSE, data |-> NoPdf, file_name |-> << >>, mime |-> ""]

\* the row the script takes for a selected id: .values[0] of the filtered table
first_row_last(df, selected_codelist_id) ==
  LET codelist_row == SelectSeq(df.rows, LAMBDA r : r["Codelist ID"] = selected_codelist_id)
  IN  codelist_row[Len(codelist_row)]

first_row(df, selected_codelist_id) ==
  LET codelist_row == SelectSeq(df.rows, LAMBDA r : r["Codelist ID"] = selected_codelist_id)
  IN  codelist_row[1]

\* the options of the selectbox
options(df) == {df.rows[i]["Codelist ID"] : i \in 1..Len(df.rows)}

\* what one run of the script shows without a table, hence without a
\* selectbox: the info line.  clicked tells whether the button was pressed in
\* this run, served what the registry answered to a request at that moment,
\* after_failure whether a registry load had failed before this run.
InfoOnly(clicked, registry_error) ==
  [clicked |-> clicked, served |-> Failed, after_failure |-> FALSE,
   registry_error |-> registry_error, info |-> TRUE,
   selected_codelist_id |-> "", label |-> << >>, codelist_url |-> "",
   fetched |-> FALSE, response |-> Failed, codelist_detail_xml |-> NoneBytes,
   codelist_items_df |-> EmptyDataFrame, items_error |-> "",
   xml_download |-> NoXml, csv_download |-> NoCsv, pdf_download |-> NoPdfDownload,
   exception |-> ""]

\* lines 143-195 for a table that is not empty
Browse(clicked, registry_error, df, selected_codelist_id, response) ==
  LET base == [InfoOnly(clicked, registry_error) EXCEPT
                 !.info = FALSE,
                 !.selected_codelist_id = selected_codelist_id,
                 !.label = <<selected_codelist_id, " - ",
                             first_row(df, selected_codelist_id)["Name (en)"]>>]
      codelist_url == first_row(df, selected_codelist_id)["Structure URL"]
      codelist_detail_xml == fetch_codelist_detail(codelist_url, response)
      items == parse_codelist_items(codelist_detail_xml)
      csv == to_csv(items.df)
      fetchedRun == [base EXCEPT !.codelist_url = codelist_url, !.fetched = TRUE,
                                 !.response = response,
                                 !.codelist_detail_xml = codelist_detail_xml]
      parsedRun == [fetchedRun EXCEPT
                      !.codelist_items_df = items.df,
                      !.items_error = items.error,
                      !.xml_download =
                         xml_download_button(codelist_detail_xml, selected_codelist_id)]
  IN  IF ~nonempty(selected_codelist_id) THEN base
      ELSE IF ~truthy(codelist_detail_xml) THEN fetchedRun
      ELSE IF Unencodable(csv) THEN [parsedRun EXCEPT !.exception = "UnicodeEncodeError"]
      ELSE [parsedRun EXCEPT
              !.csv_download =
                 [offered |-> TRUE, data |-> csv,
                  file_name |-> <<selected_codelist_id, ".csv">>, mime |-> "text/csv"],
              !.pdf_download =
                 [offered |-> TRUE, data |-> create_pdf(items.df),
                  file_name |-> <<selected_codelist_id, ".pdf">>,
                  mime |-> "application/pdf"]]

(***************************************************************************)
(* State.                                                                  *)
(***************************************************************************)
VARIABLES
  cache,         \* st.cache_data: the stored result of fetch_codelists_from_xml
  codelists_df,  \* st.session_state.codelists_df
  api_response,  \* what API_ENDPOINT answers to a request made now
  run,           \* the last run of the script: its locals and what it shows
  load_failed,   \* a call of fetch_codelists_from_xml has reported an error
  xml_content,   \* the bytes handed to a parser
  parsed,        \* which parser ran on them, and what it returned
  dataframe,     \* the table handed to create_pdf
  pdf_buffer     \* the document create_pdf returned

vars == <<cache, codelists_df, api_response, run, load_failed, xml_content, parsed, dataframe, pdf_buffer>>

appVars == <<cache, codelists_df, api_response, run, load_failed>>
parseVars == <<xml_content, parsed>>
pdfVars == <<dataframe, pdf_buffer>>

NotParsed == [parser |-> "none", df |-> EmptyDataFrame, error |-> "", raised |-> ""]
NotStored == [stored |-> FALSE, value |-> fetch_codelists_from_xml(Failed)]

AppIdle ==
  /\ cache = NotStored
  /\ codelists_df = EmptyDataFrame
  /\ api_response = Failed
  /\ run = InfoOnly(FALSE, "")
  /\ load_failed = FALSE
ParseIdle == xml_content = EmptyBytes /\ parsed = NotParsed
PdfIdle == dataframe = EmptyDataFrame /\ pdf_buffer = NoPdf

(***************************************************************************)
(* The running app: sessions, the fetch button, the selectbox.             *)
(***************************************************************************)
\* a codelist with its name, a second one of the same id elsewhere, and one
\* without attributes; a code with its name, and one whose French name has
\* no ISO-8859-1 encoding
AppCodelists ==
  {<<Place(CL_full, 1), Place(Name_en, 2)>>, <<Place(CL_dup, 1)>>, <<Place(CL_bare, 1)>>}
AppCodes ==
  {<<Place(Code_M, 1), Place(Name_en, 2)>>, <<Place(Code_bare, 1), Place(Name_fr_macron, 2)>>}

RegistryResponses == {Failed, Ok(Truncated)} \cup {Ok(b) : b \in UpToTwo(AppCodelists)}
DetailResponses ==
  {Failed, Ok(Truncated), Ok(EmptyBytes)} \cup {Ok(b) : b \in UpToTwo(AppCodes)}

\* requests.get raises MissingSchema for a URL without a scheme
NoScheme(url) == url = "Unknown URL"

\* the call of line 140 through st.cache_data: a stored result is returned
\* (and its st.error replayed) without running the body
cached_call(store, response) ==
  IF store.stored THEN store.value ELSE fetch_codelists_from_xml(response)

\* the rest of a run, given the session's table
Shown(clicked, registry_error, df, selected, response) ==
  IF empty(df)
  THEN InfoOnly(clicked, registry_error)
  ELSE Browse(clicked, registry_error, df, selected, response)

\* what the user can have selected, and what the detail URL can answer
Choices(df) ==
  IF empty(df)
  THEN {<<"", Failed>>}
  ELSE {<<sel, response>> \in options(df) \X DetailResponses :
          NoScheme(first_row(df, sel)["Structure URL"]) => response = Failed}

Init == AppIdle /\ ParseIdle /\ PdfIdle

\* a browser opens the app: lines 134-135, the button not pressed
NewSession ==
  /\ codelists_df' = EmptyDataFrame
  /\ run' = InfoOnly(FALSE, "")
  /\ UNCHANGED <<cache, api_response, load_failed, parseVars, pdfVars>>

\* the registry starts to answer differently
ApiChanges ==
  /\ \E served \in RegistryResponses : api_response' = served
  /\ UNCHANGED <<cache, codelists_df, run, load_failed, parseVars, pdfVars>>

\* a run with "Fetch Codelists from API" pressed
ClickFetch ==
  LET out == cached_call(cache, api_response)
  IN  /\ cache' = IF cache.stored \/ out.raised # ""
                  THEN cache
                  ELSE [stored |-> TRUE, value |-> out]
      /\ codelists_df' = out.df
      /\ \E c \in Choices(out.df) :
            run' = [Shown(TRUE, out.error, out.df, c[1], c[2])
                      EXCEPT !.served = api_response, !.after_failure = load_failed]
      /\ load_failed' = (load_failed \/ out.error # "")
      /\ UNCHANGED <<api_response, parseVars, pdfVars>>


\* a run caused by the selectbox
Select ==
  /\ ~empty(codelists_df)
  /\ \E c \in Choices(codelists_df) :
        run' = Shown(FALSE, "", codelists_df, c[1], c[2])
  /\ UNCHANGED <<cache, codelists_df, api_response, load_failed, parseVars, pdfVars>>

Next == NewSession \/ ApiChanges \/ ClickFetch \/ Select

Spec == Init /\ [][Next]_vars

(***************************************************************************)
(* The two parsers on every document of the bound.                         *)
(***************************************************************************)
InitParse ==
  /\ \/ \E n \in 0..MaxNodes, r \in {MessageRoot, CodelistRoot} :
          \E k \in [1..n -> RegistryKinds], d \in DepthSeqs(n) :
             xml_content = Built(r, k, d)
     \/ \E n \in 0..MaxNodes, r \in {MessageRoot, CodeRoot} :
          \E k \in [1..n -> DetailKinds], d \in DepthSeqs(n) :
             xml_content = Built(r, k, d)
     \/ xml_content \in {Truncated, EmptyBytes}
  /\ parsed = NotParsed
  /\ AppIdle /\ PdfIdle

ParseRegistry ==
  /\ parsed.parser = "none"
  /\ LET out == fetch_codelists_from_xml(Ok(xml_content))
     IN  parsed' = [parser |-> "registry", df |-> out.df, error |-> out.error,
                    raised |-> out.raised]
  /\ UNCHANGED <<xml_content, appVars, pdfVars>>

ParseDetail ==
  /\ parsed.parser = "none"
  /\ LET out == parse_codelist_items(xml_content)
     IN  parsed' = [parser |-> "detail", df |-> out.df, error |-> out.error,
                    raised |-> out.raised]
  /\ UNCHANGED <<xml_content, appVars, pdfVars>>

NextParse == ParseRegistry \/ ParseDetail

SpecParse == InitParse /\ [][NextParse]_vars

(***************************************************************************)
(* create_pdf on tables of every length of the bound.                      *)
(***************************************************************************)
PdfRowA == code_record(<<Place(MessageRoot, 0), Place(Code_M, 1), Place(Name_en, 2)>>, 2)
PdfRowB == code_record(<<Place(MessageRoot, 0), Place(Code_bare, 1), Place(Name_en_empty, 2)>>, 2)

InitPdf ==
  /\ \E n \in 0..MaxPdfRows, a \in 0..MaxPdfRows :
        /\ a <= n
        /\ dataframe = DataFrame([i \in 1..n |-> IF i <= a THEN PdfRowA ELSE PdfRowB],
                                 ItemColumns)
  /\ pdf_buffer = NoPdf
  /\ AppIdle /\ ParseIdle

CreatePdf ==
  /\ ~pdf_buffer.saved
  /\ pdf_buffer' = create_pdf(dataframe)
  /\ UNCHANGED <<dataframe, appVars, parseVars>>

NextPdf == CreatePdf

SpecPdf == InitPdf /\ [][NextPdf]_vars

(***************************************************************************)
(* Properties of the parsers.  They speak of the document itself: the      *)
(* elements of a tag below the root, counted and ordered by position.      *)
(***************************************************************************)
\* positions of the elements with this tag below the root
Below(nodes, tag) == {i \in 2..Len(nodes) : nodes[i].tag = tag}

\* the k-th smallest position of S
Kth(S, k) == CHOOSE i \in S : Cardinality({j \in S : j < i}) = k - 1

\* positions of the elements below element i
Under(nodes, i) ==
  {j \in (i + 1)..Len(nodes) : \A m \in (i + 1)..j : nodes[m].depth > nodes[i].depth}

\* the common:Name elements below element i whose xml:lang is lang
NamesIn(nodes, i, lang) ==
  {j \in Under(nodes, i) :
     /\ nodes[j].tag = NameTag
     /\ XmlLang \in DOMAIN nodes[j].attrib
     /\ nodes[j].attrib[XmlLang] = lang}

Max(S) == CHOOSE i \in S : \A j \in S : j <= i

\* what the record of element i must show for a language
NameShown(nodes, i, lang) ==
  IF NamesIn(nodes, i, lang) = {} THEN "N/A" ELSE nodes[Max(NamesIn(nodes, i, lang))].text

\* what the record must show for an attribute
AttrShown(nodes, i, attr, sentinel) ==
  IF attr \in DOMAIN nodes[i].attrib THEN nodes[i].attrib[attr] ELSE sentinel

IsTrueAnyCase(s) ==
  /\ Len(s) = 4
  /\ s[1] \in {"t", "T"} /\ s[2] \in {"r", "R"}
  /\ s[3] \in {"u", "U"} /\ s[4] \in {"e", "E"}

Parsed(parser) == parsed.parser = parser /\ xml_content.kind = "document"

\* C2: on a well-formed document the registry parser returns one record per
\* structure:Codelist element below the root, at any depth, in document
\* order, also for elements without attributes or Name children.
C2_OneRecordPerCodelist ==
  Parsed("registry") =>
    LET nodes == xml_content.nodes
        S == Below(nodes, CodelistTag)
        rows == parsed.df.rows
    IN  /\ parsed.error = "" /\ parsed.raised = ""
        /\ Len(rows) = Cardinality(S)
        /\ \A k \in 1..Len(rows) :
              /\ rows[k]["Codelist ID"] = AttrShown(nodes, Kth(S, k), "id", "Unknown ID")
              /\ rows[k]["Structure URL"]
                   = AttrShown(nodes, Kth(S, k), "structureURL", "Unknown URL")
              /\ rows[k]["Name (fr)"] = NameShown(nodes, Kth(S, k), "fr")

\* a Codelist nested in another one and a Codelist without attributes or names
C2_Witness ==
  /\ Parsed("registry")
  /\ Len(parsed.df.rows) = 2
  /\ \E i \in Below(xml_content.nodes, CodelistTag) :
        /\ xml_content.nodes[i].depth = 2
        /\ xml_content.nodes[i].attrib = EmptyDict
        /\ Under(xml_content.nodes, i) = {}

\* C3 as stated: one record per structure:Code element of the document.
C3_OneRecordPerCodeOfDocument ==
  Parsed("detail") =>
    Len(parsed.df.rows)
      = Cardinality({i \in 1..Len(xml_content.nodes) : xml_content.nodes[i].tag = CodeTag})

\* C3: on a well-formed document the detail parser returns one record per
\* structure:Code element below the root (the root itself is never matched),
\* in document order.
C3_OneRecordPerCodeBelowRoot ==
  Parsed("detail") =>
    LET nodes == xml_content.nodes
        S == Below(nodes, CodeTag)
        rows == parsed.df.rows
    IN  /\ parsed.error = "" /\ parsed.raised = ""
        /\ Len(rows) = Cardinality(S)
        /\ \A k \in 1..Len(rows) :
              /\ rows[k]["Code ID"] = AttrShown(nodes, Kth(S, k), "id", "Unknown Code")
              /\ rows[k]["Name (en)"] = NameShown(nodes, Kth(S, k), "en")

\* a root that is itself a Code, with nested Code elements below it
C3_Witness ==
  /\ Parsed("detail")
  /\ xml_content.nodes[1].tag = CodeTag
  /\ Len(parsed.df.rows) = 2
  /\ \E i \in Below(xml_content.nodes, CodeTag) : xml_content.nodes[i].depth = 2
  /\ parsed.df.rows[1]["Code ID"] # parsed.df.rows[2]["Code ID"]

\* C4: on bytes that are not well-formed XML either parser reports its
\* malformed-XML error, returns the empty table and lets nothing escape.
C4_MalformedIsReported ==
  (parsed.parser # "none" /\ xml_content.kind # "document") =>
    /\ parsed.error = (IF parsed.parser = "registry"
                       THEN "Error parsing XML" ELSE "Error parsing codelist XML")
    /\ parsed.raised = ""
    /\ parsed.df.rows = << >>
    /\ parsed.df.columns = << >>

\* the detail parser has run on b"<Codelist"
C4_Witness ==
  /\ parsed.parser = "detail"
  /\ xml_content = Truncated
  /\ parsed.error # ""

\* C7: each record of the registry parser shows the exact value of a present
\* id, agencyID, version, structureURL and the sentinel of a missing one; Is
\* Final is true exactly when isFinal is present and reads "true" in any case.
C7_SentinelPolicy ==
  Parsed("registry") =>
    LET nodes == xml_content.nodes
        S == Below(nodes, CodelistTag)
        rows == parsed.df.rows
    IN  \A k \in 1..Len(rows) :
          LET i == Kth(S, k)
          IN  /\ rows[k]["Codelist ID"] = AttrShown(nodes, i, "id", "Unknown ID")
              /\ rows[k]["Agency ID"] = AttrShown(nodes, i, "agencyID", "Unknown Agency")
              /\ rows[k]["Version"] = AttrShown(nodes, i, "version", "Unknown Version")
              /\ rows[k]["Structure URL"]
                   = AttrShown(nodes, i, "structureURL", "Unknown URL")
              /\ rows[k]["Is Final"]
                   = ("isFinal" \in DOMAIN nodes[i].attrib
                        /\ IsTrueAnyCase(nodes[i].attrib["isFinal"]))

\* isFinal="TRUE" without agencyID, next to a Codelist without attributes
C7_Witness ==
  /\ Parsed("registry")
  /\ \E k \in 1..Len(parsed.df.rows) :
        /\ parsed.df.rows[k]["Is Final"]
        /\ parsed.df.rows[k]["Agency ID"] = "Unknown Agency"
        /\ parsed.df.rows[k]["Codelist ID"] = "CL_SEX"
  /\ \E k \in 1..Len(parsed.df.rows) :
        /\ ~parsed.df.rows[k]["Is Final"]
        /\ parsed.df.rows[k]["Codelist ID"] = "Unknown ID"
        /\ parsed.df.rows[k]["Structure URL"] = "Unknown URL"

\* C8: Name (en) and Name (fr) of a record are the text of the last
\* common:Name below its element with that xml:lang, N/A without one; a
\* Name without xml:lang supplies neither.
C8_LastNameWins ==
  /\ Parsed("detail") =>
       \A k \in 1..Len(parsed.df.rows) :
         LET i == Kth(Below(xml_content.nodes, CodeTag), k)
         IN  /\ parsed.df.rows[k]["Name (en)"] = NameShown(xml_content.nodes, i, "en")
             /\ parsed.df.rows[k]["Name (fr)"] = NameShown(xml_content.nodes, i, "fr")
  /\ Parsed("registry") =>
       \A k \in 1..Len(parsed.df.rows) :
         LET i == Kth(Below(xml_content.nodes, CodelistTag), k)
         IN  /\ parsed.df.rows[k]["Name (en)"] = NameShown(xml_content.nodes, i, "en")
             /\ parsed.df.rows[k]["Name (fr)"] = NameShown(xml_content.nodes, i, "fr")

\* a Code with two English names of different text, the second one shown
C8_Witness ==
  /\ Parsed("detail")
  /\ Len(parsed.df.rows) = 1
  /\ LET i == Kth(Below(xml_content.nodes, CodeTag), 1)
     IN  /\ Cardinality(NamesIn(xml_content.nodes, i, "en")) = 2
         /\ \E a, b \in NamesIn(xml_content.nodes, i, "en") :
               a < b /\ xml_content.nodes[a].text # xml_content.nodes[b].text
                     /\ parsed.df.rows[1]["Name (en)"] = xml_content.nodes[b].text

(***************************************************************************)
(* Properties of the running app.                                          *)
(***************************************************************************)
\* the registry now serves a well-formed document with at least one Codelist
ServesCodelists(response) ==
  /\ response.status = "ok"
  /\ response.content.kind = "document"
  /\ Below(response.content.nodes, CodelistTag) # {}

\* C1: after a registry load that failed, a press of the fetch button loads
\* anew: if the registry serves N >= 1 Codelist elements at that moment, the
\* session holds those N records and not the earlier failure.
C1_RetryAfterFailure ==
  (run.clicked /\ run.after_failure /\ ServesCodelists(run.served)) =>
    Len(codelists_df.rows) = Cardinality(Below(run.served.content.nodes, CodelistTag))

\* the rows of a delimited export, as cells, for the Code elements of bytes
ItemCells(bytes) ==
  IF bytes.kind # "document"
  THEN << >>
  ELSE LET S == Below(bytes.nodes, CodeTag)
           Cell(v) == IF v = None THEN "" ELSE v
       IN  [k \in 1..Cardinality(S) |->
              <<Cell(AttrShown(bytes.nodes, Kth(S, k), "id", "Unknown Code")),
                Cell(NameShown(bytes.nodes, Kth(S, k), "en")),
                Cell(NameShown(bytes.nodes, Kth(S, k), "fr"))>>]

\* C6: the delimited export is the header row Code ID, Name (en), Name (fr)
\* followed by one row per record, N + 1 lines, also for N = 0.
C6_HeaderThenRows ==
  run.csv_download.offered =>
    /\ Len(run.csv_download.data) = Len(run.codelist_items_df.rows) + 1
    /\ run.csv_download.data[1] = <<"Code ID", "Name (en)", "Name (fr)">>

\* the first row of the session's table with the selected id
FirstWithId(df, id) ==
  CHOOSE i \in 1..Len(df.rows) :
    /\ df.rows[i]["Codelist ID"] = id
    /\ \A j \in 1..(i - 1) : df.rows[j]["Codelist ID"] # id

\* C9: a selected id resolves to the first record of the registry sequence
\* with that id: its structureUrl is fetched and its English name labels the
\* selection, also when several records share the id.
C9_FirstMatchWins ==
  ~run.info =>
    LET first == codelists_df.rows[FirstWithId(codelists_df, run.selected_codelist_id)]
    IN  /\ run.label = <<run.selected_codelist_id, " - ", first["Name (en)"]>>
        /\ run.fetched => run.codelist_url = first["Structure URL"]

\* two records share the selected id and differ in URL and name
C9_Witness ==
  /\ run.fetched
  /\ run.xml_download.offered
  /\ \E i, j \in 1..Len(codelists_df.rows) :
        /\ i < j
        /\ codelists_df.rows[i]["Codelist ID"] = run.selected_codelist_id
        /\ codelists_df.rows[j]["Codelist ID"] = run.selected_codelist_id
        /\ codelists_df.rows[i]["Structure URL"] # codelists_df.rows[j]["Structure URL"]
        /\ codelists_df.rows[i]["Name (en)"] # codelists_df.rows[j]["Name (en)"]

\* the Code ID lines of a printable document, in page and line order
CodeIdLines(pdf) ==
  IF Len(pdf.pages) = 0 THEN << >>
  ELSE SelectSeq(pdf.pages[1], LAMBDA l : l.text[1] = "Code ID: ")

\* C10: an offered XML download is byte for byte what the detail fetch of the
\* selected codelist returned, the CSV and PDF offered with it hold the
\* records of those same bytes, and nothing is offered after a failed fetch.
C10_PassthroughXml ==
  /\ run.xml_download.offered =>
       /\ run.fetched /\ run.response.status = "ok"
       /\ run.xml_download.data = run.response.content
       /\ run.codelist_url
            = codelists_df.rows[FirstWithId(codelists_df, run.selected_codelist_id)]
                ["Structure URL"]
  /\ run.csv_download.offered =>
       /\ run.xml_download.offered
       /\ Tail(run.csv_download.data) = ItemCells(run.response.content)
  /\ run.pdf_download.offered =>
       /\ run.xml_download.offered
       /\ LET ids == CodeIdLines(run.pdf_download.data)
              cells == ItemCells(run.response.content)
          IN  /\ Len(ids) = Len(cells)
              /\ \A k \in 1..Len(ids) :
                    ids[k].text[2] = (IF cells[k][1] = "" THEN "None" ELSE cells[k][1])
  /\ (~run.fetched \/ run.response.status # "ok") =>
       /\ ~run.xml_download.offered
       /\ ~run.csv_download.offered
       /\ ~run.pdf_download.offered

\* all three downloads offered for a document with two Code elements
C10_Witness ==
  /\ run.xml_download.offered /\ run.csv_download.offered /\ run.pdf_download.offered
  /\ run.xml_download.data.kind = "document"
  /\ Cardinality(Below(run.xml_download.data.nodes, CodeTag)) = 2
  /\ Len(run.csv_download.data) = 3

(***************************************************************************)
(* Properties of create_pdf.                                               *)
(***************************************************************************)
\* C5: the printable document starts a new page when the lines exceed one
\* page: no line lies below the bottom edge of its page.
C5_NoLineBelowThePage ==
  pdf_buffer.saved =>
    \A p \in 1..Len(pdf_buffer.pages) :
      \A l \in 1..Len(pdf_buffer.pages[p]) :
        /\ pdf_buffer.pages[p][l].y >= 0
        /\ pdf_buffer.pages[p][l].y <= PageHeight

====
